---- MODULE Spec2Model ----
(***************************************************************************)
(* Model of src/GenAI-3-05/seo_content_system.py: the SEO content          *)
(* generation and validation pipeline (SEOContentSystem.run, its helpers   *)
(* and pretty_report).                                                     *)
(*                                                                         *)
(* A Python str is a sequence of characters; a character is a one-letter   *)
(* string.  The Cyrillic letters are written by name ("ya", "YA", "yo",    *)
(* "YO"), each still one character of the text.  An Optional value is      *)
(* NONE or Some(v).                                                        *)
(***************************************************************************)
EXTENDS Integers, Sequences, FiniteSets

VARIABLES
    req,        \* the arguments of run: topic, language, keywords, synth, out
    pc,         \* the position of run / main
    lang,       \* run's local lang
    kws,        \* run's local kws
    meta,       \* run's local meta
    title,      \* run's local title
    summary,    \* run's local summary
    calls,      \* the completion requests issued, in order, with their outcome
    genCalls,   \* the arguments handed to each generator, in order
    checks,     \* run's local checks
    result,     \* run's local result (an SEOResult)
    returned,   \* what run handed back to its caller
    raised,     \* the exception that left run, if any
    artifact,   \* the state of the file at out_json_path
    report,     \* the verdict pretty_report printed
    probe       \* a single call of a helper: its input and its output

vars == <<req, pc, lang, kws, meta, title, summary, calls, genCalls, checks,
          result, returned, raised, artifact, report, probe>>

-----------------------------------------------------------------------------
(* Bounds of the model *)

\* how far past a field's limit the longest completion goes
Over == 30
\* leading / trailing blanks put around a completion
MaxPad == 1
\* lines of a keyword completion
MaxLines == 3
\* the n handed to generate_synthetic_keywords when it is called on its own
MaxN == 2

(* Constants of the program *)

MetaCut == 150
TitleCut == 60
SummaryCut == 300
MetaMax == 150
TitleMax == 60
SummaryMax == 300
MetaTokens == 120
TitleTokens == 60
SummaryTokens == 180
KeywordTokens == 200
DefaultN == 8

-----------------------------------------------------------------------------
(* Optional values *)

NONE == [some |-> FALSE]
Some(v) == [some |-> TRUE, val |-> v]

-----------------------------------------------------------------------------
(* Python str operations *)

Min(a, b) == IF a <= b THEN a ELSE b

NL == "\n"
\* str.strip() and the regex class \s
White == {" ", "\t", NL}
\* the regex class \d
Digit == {"0", "1", "2", "3", "4", "5", "6", "7", "8", "9"}
\* the regex class [\-\d\.\)\s]
Marker == {"-", ".", ")"} \cup Digit \cup White

LowerChar(c) ==
    CASE c = "A" -> "a"
      [] c = "B" -> "b"
      [] c = "X" -> "x"
      [] c = "YA" -> "ya"
      [] c = "YO" -> "yo"
      [] OTHER -> c

\* str.lower()
Lower(s) == [i \in 1..Len(s) |-> LowerChar(s[i])]

\* s[:n]
Prefix(s, n) == SubSeq(s, 1, Min(n, Len(s)))

\* the number of leading characters of s that are in cls
LeadRun(s, cls) ==
    CHOOSE k \in 0..Len(s) :
        /\ \A j \in 1..k : s[j] \in cls
        /\ (k < Len(s) => s[k + 1] \notin cls)

\* the number of trailing characters of s that are in cls
TrailRun(s, cls) ==
    CHOOSE k \in 0..Len(s) :
        /\ \A j \in (Len(s) - k + 1)..Len(s) : s[j] \in cls
        /\ (k < Len(s) => s[Len(s) - k] \notin cls)

LStrip(s) == SubSeq(s, LeadRun(s, White) + 1, Len(s))
RStrip(s) == SubSeq(s, 1, Len(s) - TrailRun(s, White))
\* str.strip()
Strip(s) == RStrip(LStrip(s))

\* the index of the first line break of s, 0 when there is none
FirstBreak(s) ==
    IF \E i \in 1..Len(s) : s[i] = NL
    THEN CHOOSE i \in 1..Len(s) : s[i] = NL /\ \A j \in 1..(i - 1) : s[j] # NL
    ELSE 0

RECURSIVE SplitLines(_)
\* str.splitlines()
SplitLines(s) ==
    IF s = <<>> THEN <<>>
    ELSE LET k == FirstBreak(s)
         IN IF k = 0 THEN <<s>>
            ELSE <<SubSeq(s, 1, k - 1)>> \o SplitLines(SubSeq(s, k + 1, Len(s)))

\* kw in t
Contains(t, kw) ==
    \E i \in 0..Len(t) : i + Len(kw) <= Len(t) /\ SubSeq(t, i + 1, i + Len(kw)) = kw

\* re.sub(r'^[\-\d\.\)\s]+', '', line)
StripMarkers(line) == SubSeq(line, LeadRun(line, Marker) + 1, Len(line))

-----------------------------------------------------------------------------
(* detect_language *)

\* the letters with 'a' <= ch <= 'z' and those with 'а' <= ch <= 'я'
LatinRange == {"a", "b", "e", "n", "r", "u", "x", "y"}
CyrillicRange == {"ya"}

RU == <<"r", "u">>
EN == <<"e", "n">>

detect_language(text) ==
    LET cyr == Cardinality({i \in 1..Len(text) :
                   LowerChar(text[i]) \in CyrillicRange \/ text[i] = "yo"})
        lat == Cardinality({i \in 1..Len(text) : LowerChar(text[i]) \in LatinRange})
    IN IF cyr >= lat THEN RU ELSE EN

-----------------------------------------------------------------------------
(* missing_keywords, _check_field *)

\* missing_keywords without text.lower()
missing_keywords_case_sensitive(text, keywords) ==
    IF keywords = <<>> THEN <<>>
    ELSE SelectSeq(keywords, LAMBDA kw : ~Contains(text, Lower(kw)))

missing_keywords(text, keywords) ==
    IF keywords = <<>> THEN <<>>
    ELSE LET t == Lower(text)
         IN SelectSeq(keywords, LAMBDA kw : ~Contains(t, Lower(kw)))

\* _check_field asking for a non-empty text as well
_check_field_nonempty(text, max_len, keywords) ==
    [length |-> Len(text),
     max_allowed |-> max_len,
     ok_length |-> 0 < Len(text) /\ Len(text) <= max_len,
     missing_keywords |-> missing_keywords(text, keywords)]

_check_field(text, max_len, keywords) ==
    [length |-> Len(text),
     max_allowed |-> max_len,
     ok_length |-> Len(text) <= max_len,
     missing_keywords |-> missing_keywords(text, keywords)]

-----------------------------------------------------------------------------
(* _chat: the text taken from a completion response *)

\* Python truthiness of an Optional[str]
Truthy(o) == o.some /\ o.val # <<>>
\* a or b
Or(a, b) == IF Truthy(a) THEN a ELSE b

\* a response: message.content, choices[0].text, and message.reasoning_content
\* when the message has that attribute
Response(content, text, has_reasoning, reasoning) ==
    [content |-> content, text |-> text,
     has_reasoning |-> has_reasoning, reasoning_content |-> reasoning]

_chat(resp) ==
    LET text == Or(resp.content, resp.text)
        text2 == IF ~Truthy(text) /\ resp.has_reasoning
                 THEN resp.reasoning_content ELSE text
    IN Strip(Or(text2, Some(<<>>)).val)

-----------------------------------------------------------------------------
(* generate_synthetic_keywords: the keywords taken from the completion text *)

RECURSIVE Dedup_case_sensitive(_, _, _)
\* the loop with seen holding kw itself, not kw.lower()
Dedup_case_sensitive(ks, seen, res) ==
    IF ks = <<>> THEN res
    ELSE LET kw == Head(ks)
         IN IF kw \notin seen
            THEN Dedup_case_sensitive(Tail(ks), seen \cup {kw}, Append(res, kw))
            ELSE Dedup_case_sensitive(Tail(ks), seen, res)

RECURSIVE Dedup(_, _, _)
\* the loop over kws with its locals seen and result
Dedup(ks, seen, res) ==
    IF ks = <<>> THEN res
    ELSE LET kw == Head(ks)
             low == Lower(kw)
         IN IF low \notin seen
            THEN Dedup(Tail(ks), seen \cup {low}, Append(res, kw))
            ELSE Dedup(Tail(ks), seen, res)

\* the list kws built from the lines of the completion
KeywordLines(text) ==
    LET lines == SelectSeq(SplitLines(text), LAMBDA line : Strip(line) # <<>>)
    IN [i \in 1..Len(lines) |-> Strip(StripMarkers(lines[i]))]

generate_synthetic_keywords(text, n) ==
    Prefix(Dedup(KeywordLines(text), {}, <<>>), n)

-----------------------------------------------------------------------------
(* generate_meta_description, generate_title, generate_summary: the field  *)
(* taken from the completion text                                          *)

generate_meta_description(text) == Strip(Prefix(text, MetaCut))
\* generate_title without the cut
generate_title_uncut(text) == Strip(text)
\* generate_title without the strip after the cut
generate_title_unstripped(text) == Prefix(text, TitleCut)
generate_title(text) == Strip(Prefix(text, TitleCut))
generate_summary(text) == Strip(Prefix(text, SummaryCut))

-----------------------------------------------------------------------------
(* The completion requests the generators build.  A prompt is kept by its  *)
(* parts: which of the two language branches wrote it, the topic, the      *)
(* keywords spliced into it (none when the list is empty) and max_tokens.  *)

Prompt(kind, language, topic, keywords, max_tokens) ==
    [kind |-> kind, ru |-> (language = RU), topic |-> topic,
     include |-> keywords, max_tokens |-> max_tokens]

keywords_prompt(topic, language, n) ==
    [kind |-> "keywords", ru |-> (language = RU), topic |-> topic,
     n |-> n, max_tokens |-> KeywordTokens]
meta_description_prompt(topic, language, keywords) ==
    Prompt("meta_description", language, topic, keywords, MetaTokens)
\* a title prompt that leaves the keywords out
title_prompt_no_keywords(topic, language, keywords) ==
    Prompt("title", language, topic, <<>>, TitleTokens)
title_prompt(topic, language, keywords) ==
    Prompt("title", language, topic, keywords, TitleTokens)
summary_prompt(topic, language, keywords) ==
    Prompt("summary", language, topic, keywords, SummaryTokens)

\* one entry of calls: the request, and the response (NONE when the call raised)
Call(request, response) == [request |-> request, response |-> response]
\* one entry of genCalls
GenCall(fn, topic, language, keywords) ==
    [fn |-> fn, topic |-> topic, language |-> language, keywords |-> keywords]

-----------------------------------------------------------------------------
(* pretty_report: the marks of its last line *)

FieldOk(ch) == ch.ok_length /\ ch.missing_keywords = <<>>

pretty_report(res) ==
    LET ch == res.checks
        meta_ok == FieldOk(ch.meta_description)
        title_ok == FieldOk(ch.title)
        summary_ok == FieldOk(ch.summary)
    IN [verdict |-> (meta_ok /\ title_ok /\ summary_ok)]

-----------------------------------------------------------------------------
(* Inputs *)

Rep(c, n) == [i \in 1..n |-> c]

KwA == <<"a", "b">>
KwB == <<"B">>

\* topics: Cyrillic with a capital YO (not counted); mixed, Latin ahead
Topics == {<<"ya", "YO">>, <<"ya", "a", "YO", "b">>}
Languages == {NONE, Some(<<>>), Some(EN)}
KeywordArgs == {NONE, Some(<<>>), Some(<<KwA>>), Some(<<KwB, KwA>>)}
OutPath == <<"o", ".", "j">>

Requests ==
    [topic : Topics, language : Languages, keywords : KeywordArgs,
     synth : BOOLEAN, out : {NONE, Some(OutPath)}]

\* a completion text of length n: word first, then filler, a blank at each
\* position of blanks
Body(word, n, blanks) ==
    [i \in 1..n |-> IF i \in blanks THEN " "
                    ELSE IF i <= Len(word) THEN word[i] ELSE "x"]

\* the responses of the completion service to a field request whose field is
\* cut at cut characters
FieldResponses(cut) ==
    { Response(NONE, NONE, FALSE, NONE),
      Response(Some(Rep(" ", MaxPad) \o <<"A", "b", " ", "b">>), NONE, FALSE, NONE),
      Response(NONE, Some(<<"x", "B">>), TRUE, Some(KwA)),
      Response(NONE, NONE, TRUE, Some(Body(KwA, cut + Over, {cut}))),
      Response(Some(Body(<<>>, cut + Over, {})), NONE, FALSE, NONE) }

\* nine keyword lines, all different
NineLines ==
    <<"a">> \o <<NL>> \o <<"b">> \o <<NL>> \o <<"x">> \o <<NL>> \o <<"y">> \o <<NL>>
    \o <<"a", "a">> \o <<NL>> \o <<"b", "b">> \o <<NL>> \o <<"x", "x">> \o <<NL>>
    \o <<"y", "y">> \o <<NL>> \o <<"a", "b">>

\* the responses of the completion service to a keyword request
KeywordResponses ==
    { Response(Some(<<>>), NONE, TRUE, NONE),
      Response(Some(<<"1", ".", " ">> \o KwA \o <<NL, "-", " ">> \o KwB
                    \o <<NL>> \o KwA), NONE, FALSE, NONE),
      Response(Some(<<"-">>), NONE, FALSE, NONE),
      Response(Some(NineLines), NONE, FALSE, NONE) }

Idle == [op |-> "idle"]

-----------------------------------------------------------------------------
(* SEOContentSystem.run, then main's print of pretty_report *)

Init ==
    /\ req \in Requests
    /\ pc = "Start"
    /\ lang = NONE
    /\ kws = NONE
    /\ meta = NONE
    /\ title = NONE
    /\ summary = NONE
    /\ calls = <<>>
    /\ genCalls = <<>>
    /\ checks = NONE
    /\ result = NONE
    /\ returned = NONE
    /\ raised = "none"
    /\ artifact = "absent"
    /\ report = NONE
    /\ probe = Idle

\* lang = language or detect_language(topic)
ResolveLanguage ==
    /\ pc = "Start"
    /\ lang' = Some(IF Truthy(req.language) THEN req.language.val
                    ELSE detect_language(req.topic))
    /\ pc' = "LanguageResolved"
    /\ UNCHANGED <<req, kws, meta, title, summary, calls, genCalls, checks,
                   result, returned, raised, artifact, report, probe>>

\* kws = [], whatever the caller supplied
SuppliedKeywords_dropped == <<>>
\* kws = keywords or []
SuppliedKeywords == IF Truthy(req.keywords) THEN req.keywords.val ELSE <<>>

\* the branch of run that does not call the synthesizer
UseKeywords ==
    /\ pc = "LanguageResolved"
    /\ ~(SuppliedKeywords = <<>> /\ req.synth)
    /\ kws' = Some(SuppliedKeywords)
    /\ pc' = "KeywordsResolved"
    /\ UNCHANGED <<req, lang, meta, title, summary, calls, genCalls, checks,
                   result, returned, raised, artifact, report, probe>>

\* kws = self.generate_synthetic_keywords(topic, lang), the service answering
SynthesizeKeywords ==
    /\ pc = "LanguageResolved"
    /\ SuppliedKeywords = <<>> /\ req.synth
    /\ \E resp \in KeywordResponses :
        /\ calls' = Append(calls, Call(keywords_prompt(req.topic, lang.val, DefaultN),
                                       Some(resp)))
        /\ kws' = Some(generate_synthetic_keywords(_chat(resp), DefaultN))
    /\ genCalls' = Append(genCalls, GenCall("keywords", req.topic, lang.val, <<>>))
    /\ pc' = "KeywordsResolved"
    /\ UNCHANGED <<req, lang, meta, title, summary, checks,
                   result, returned, raised, artifact, report, probe>>

\* a completion request that raises and is caught: run stays where it is and
\* issues the request again
ChatRaises_retried(request, gen) ==
    /\ calls' = Append(calls, Call(request, NONE))
    /\ genCalls' = genCalls
    /\ raised' = "APIConnectionError"
    /\ pc' = pc
    /\ UNCHANGED <<req, lang, kws, meta, title, summary, checks,
                   result, returned, artifact, report, probe>>

\* a completion request that raises: the exception leaves _chat, the
\* generator and run, none of which catches it
ChatRaises(request, gen) ==
    /\ calls' = Append(calls, Call(request, NONE))
    /\ genCalls' = Append(genCalls, gen)
    /\ raised' = "APIConnectionError"
    /\ pc' = "Failed"
    /\ UNCHANGED <<req, lang, kws, meta, title, summary, checks,
                   result, returned, artifact, report, probe>>

SynthesizeKeywordsFails ==
    /\ pc = "LanguageResolved"
    /\ SuppliedKeywords = <<>> /\ req.synth
    /\ ChatRaises(keywords_prompt(req.topic, lang.val, DefaultN),
                  GenCall("keywords", req.topic, lang.val, <<>>))

\* meta = self.generate_meta_description(topic, lang, kws)
GenerateMeta ==
    /\ pc = "KeywordsResolved"
    /\ \E resp \in FieldResponses(MetaCut) :
        /\ calls' = Append(calls,
               Call(meta_description_prompt(req.topic, lang.val, kws.val), Some(resp)))
        /\ meta' = Some(generate_meta_description(_chat(resp)))
    /\ genCalls' = Append(genCalls,
           GenCall("meta_description", req.topic, lang.val, kws.val))
    /\ pc' = "MetaGenerated"
    /\ UNCHANGED <<req, lang, kws, title, summary, checks,
                   result, returned, raised, artifact, report, probe>>

GenerateMetaFails ==
    /\ pc = "KeywordsResolved"
    /\ ChatRaises(meta_description_prompt(req.topic, lang.val, kws.val),
                  GenCall("meta_description", req.topic, lang.val, kws.val))

\* title = self.generate_title(topic, lang, kws)
GenerateTitle ==
    /\ pc = "MetaGenerated"
    /\ \E resp \in FieldResponses(TitleCut) :
        /\ calls' = Append(calls,
               Call(title_prompt(req.topic, lang.val, kws.val), Some(resp)))
        /\ title' = Some(generate_title(_chat(resp)))
    /\ genCalls' = Append(genCalls, GenCall("title", req.topic, lang.val, kws.val))
    /\ pc' = "TitleGenerated"
    /\ UNCHANGED <<req, lang, kws, meta, summary, checks,
                   result, returned, raised, artifact, report, probe>>

GenerateTitleFails ==
    /\ pc = "MetaGenerated"
    /\ ChatRaises(title_prompt(req.topic, lang.val, kws.val),
                  GenCall("title", req.topic, lang.val, kws.val))

\* summary = self.generate_summary(topic, lang, kws)
GenerateSummary ==
    /\ pc = "TitleGenerated"
    /\ \E resp \in FieldResponses(SummaryCut) :
        /\ calls' = Append(calls,
               Call(summary_prompt(req.topic, lang.val, kws.val), Some(resp)))
        /\ summary' = Some(generate_summary(_chat(resp)))
    /\ genCalls' = Append(genCalls, GenCall("summary", req.topic, lang.val, kws.val))
    /\ pc' = "FieldsGenerated"
    /\ UNCHANGED <<req, lang, kws, meta, title, checks,
                   result, returned, raised, artifact, report, probe>>

GenerateSummaryFails ==
    /\ pc = "TitleGenerated"
    /\ ChatRaises(summary_prompt(req.topic, lang.val, kws.val),
                  GenCall("summary", req.topic, lang.val, kws.val))

\* checks = {...}
Validate ==
    /\ pc = "FieldsGenerated"
    /\ checks' = Some([meta_description |-> _check_field(meta.val, MetaMax, kws.val),
                       title |-> _check_field(title.val, TitleMax, kws.val),
                       summary |-> _check_field(summary.val, SummaryMax, kws.val)])
    /\ pc' = "Validated"
    /\ UNCHANGED <<req, lang, kws, meta, title, summary, calls, genCalls,
                   result, returned, raised, artifact, report, probe>>

\* result = SEOResult(...); the timestamp is left out
Assemble ==
    /\ pc = "Validated"
    /\ result' = Some([topic |-> req.topic,
                       language |-> lang.val,
                       keywords |-> kws.val,
                       meta_description |-> meta.val,
                       title |-> title.val,
                       summary |-> summary.val,
                       checks |-> checks.val,
                       model_used |-> "qwen2.5:3b-instruct"])
    /\ pc' = "Assembled"
    /\ UNCHANGED <<req, lang, kws, meta, title, summary, calls, genCalls, checks,
                   returned, raised, artifact, report, probe>>

\* if out_json_path: is false; return result
ReturnUnsaved ==
    /\ pc = "Assembled"
    /\ ~Truthy(req.out)
    /\ returned' = result
    /\ pc' = "Returned"
    /\ UNCHANGED <<req, lang, kws, meta, title, summary, calls, genCalls, checks,
                   result, raised, artifact, report, probe>>

\* the file is written; return result
SaveAndReturn ==
    /\ pc = "Assembled"
    /\ Truthy(req.out)
    /\ artifact' = "written"
    /\ returned' = result
    /\ pc' = "Returned"
    /\ UNCHANGED <<req, lang, kws, meta, title, summary, calls, genCalls, checks,
                   result, raised, report, probe>>

\* open() or json.dump raises and is caught: run still returns result
SaveFails_caught ==
    /\ pc = "Assembled"
    /\ Truthy(req.out)
    /\ artifact' \in {"absent", "partial"}
    /\ raised' = "OSError"
    /\ returned' = result
    /\ pc' = "Returned"
    /\ UNCHANGED <<req, lang, kws, meta, title, summary, calls, genCalls, checks,
                   result, report, probe>>

\* open() or json.dump raises: the exception leaves the with block and run
SaveFails ==
    /\ pc = "Assembled"
    /\ Truthy(req.out)
    /\ artifact' \in {"absent", "partial"}
    /\ raised' = "OSError"
    /\ pc' = "Failed"
    /\ UNCHANGED <<req, lang, kws, meta, title, summary, calls, genCalls, checks,
                   result, returned, report, probe>>

\* main: print(pretty_report(result))
Report ==
    /\ pc = "Returned"
    /\ report' = Some(pretty_report(returned.val))
    /\ pc' = "Reported"
    /\ UNCHANGED <<req, lang, kws, meta, title, summary, calls, genCalls, checks,
                   result, returned, raised, artifact, probe>>

Next ==
    \/ ResolveLanguage
    \/ UseKeywords
    \/ SynthesizeKeywords
    \/ SynthesizeKeywordsFails
    \/ GenerateMeta
    \/ GenerateMetaFails
    \/ GenerateTitle
    \/ GenerateTitleFails
    \/ GenerateSummary
    \/ GenerateSummaryFails
    \/ Validate
    \/ Assemble
    \/ ReturnUnsaved
    \/ SaveAndReturn
    \/ SaveFails
    \/ Report

Spec == Init /\ [][Next]_vars

-----------------------------------------------------------------------------
(* The helpers called on their own: one call of a field generator or of    *)
(* generate_synthetic_keywords on a completion drawn from a wider family.  *)

Kinds == {"meta_description", "title", "summary"}

CutOf(kind) ==
    CASE kind = "meta_description" -> MetaCut
      [] kind = "title" -> TitleCut
      [] kind = "summary" -> SummaryCut

MaxOf(kind) ==
    CASE kind = "meta_description" -> MetaMax
      [] kind = "title" -> TitleMax
      [] kind = "summary" -> SummaryMax

Generate(kind, text) ==
    CASE kind = "meta_description" -> generate_meta_description(text)
      [] kind = "title" -> generate_title(text)
      [] kind = "summary" -> generate_summary(text)

\* completions around the cut: shorter, exact, longer, blanks at the cut
ProbeTexts(cut) ==
    { Rep(" ", lead) \o Body(word, n, blanks) \o Rep(" ", trail) :
        lead \in 0..MaxPad, trail \in 0..MaxPad, word \in {<<>>, KwA},
        n \in {0, 1, cut - 1, cut, cut + 1, cut + Over},
        blanks \in SUBSET {cut - 1, cut, cut + 1} }

ProbeField ==
    /\ probe = Idle
    /\ \E kind \in Kinds : \E raw \in ProbeTexts(CutOf(kind)) :
        LET text == _chat(Response(Some(raw), NONE, FALSE, NONE))
            out == Generate(kind, text)
        IN probe' = [op |-> kind, text |-> text, out |-> out,
                     check |-> _check_field(out, MaxOf(kind), <<KwA>>)]
    /\ UNCHANGED <<req, pc, lang, kws, meta, title, summary, calls, genCalls,
                   checks, result, returned, raised, artifact, report>>

\* lines a model may answer with: keywords, numbered or dashed, repeated in
\* another case, bare markers, blank lines
ProbeLines ==
    { KwA, <<"A", "b">>, KwB,
      <<"1", ".", " ">> \o KwA, <<"-", " ">> \o KwB, <<"2", ")", "A", "b">>,
      <<"-">>, <<"1", ".">>, <<>>, <<" ", "b", " ">> }

RECURSIVE JoinLines(_)
JoinLines(lines) ==
    IF lines = <<>> THEN <<>>
    ELSE IF Len(lines) = 1 THEN lines[1]
    ELSE lines[1] \o <<NL>> \o JoinLines(Tail(lines))

ProbeKeywords ==
    /\ probe = Idle
    /\ \E k \in 0..MaxLines : \E lines \in [1..k -> ProbeLines] : \E n \in 0..MaxN :
        LET text == _chat(Response(Some(JoinLines(lines)), NONE, FALSE, NONE))
        IN probe' = [op |-> "keywords", text |-> text, n |-> n,
                     out |-> generate_synthetic_keywords(text, n)]
    /\ UNCHANGED <<req, pc, lang, kws, meta, title, summary, calls, genCalls,
                   checks, result, returned, raised, artifact, report>>

\* no run is under way
InitFn ==
    /\ Init
    /\ req = [topic |-> <<"ya", "a", "YO", "b">>, language |-> NONE,
              keywords |-> NONE, synth |-> TRUE, out |-> NONE]

NextFn ==
    \/ ProbeField
    \/ ProbeKeywords

SpecFn == InitFn /\ [][NextFn]_vars

-----------------------------------------------------------------------------
(* Vocabulary of the properties *)

FieldVar(kind) ==
    CASE kind = "meta_description" -> meta
      [] kind = "title" -> title
      [] kind = "summary" -> summary

\* the calls issued for kind
CallsOf(kind) == {i \in 1..Len(calls) : calls[i].request.kind = kind}

\* an optional text with at least one character that is not white space
HasText(o) == o.some /\ \E i \in 1..Len(o.val) : o.val[i] \notin White

\* the service answered, and none of the fields _chat reads holds text
NoUsableText(resp) ==
    /\ ~HasText(resp.content)
    /\ ~HasText(resp.text)
    /\ (resp.has_reasoning => ~HasText(resp.reasoning_content))

\* the service answered the request for kind with no usable text
EmptyCompletion(kind) ==
    \E i \in CallsOf(kind) : calls[i].response.some /\ NoUsableText(calls[i].response.val)

\* kw occurs in t at some offset
OccursIn(kw, t) ==
    \E off \in 0..(Len(t) - Len(kw)) : \A k \in 1..Len(kw) : t[off + k] = kw[k]

\* the elements of s at the indices idx, in order
SubListAt(s, idx) ==
    [k \in 1..Cardinality(idx) |->
        s[CHOOSE i \in idx : Cardinality({j \in idx : j <= i}) = k]]

\* the keywords of ks that do not occur in text, case ignored
AbsentKeywords(text, ks) ==
    LET low == Lower(text)
    IN SubListAt(ks, {i \in 1..Len(ks) : ~OccursIn(Lower(ks[i]), low)})

\* the first occurrences, case ignored, of the elements of ks
FirstOccurrences(ks) ==
    SubListAt(ks, {i \in 1..Len(ks) : \A j \in 1..(i - 1) : Lower(ks[j]) # Lower(ks[i])})

IsPrefixOf(a, b) == Len(a) <= Len(b) /\ \A i \in 1..Len(a) : a[i] = b[i]

-----------------------------------------------------------------------------
(* C1: every SEOResult run returns has a title of at most 60 characters, a *)
(* meta description of at most 150 and a summary of at most 300, and each  *)
(* field's check has ok_length true and max_allowed equal to the limit the *)
(* field was cut at.                                                       *)
C1_TruncationInvariant ==
    returned.some =>
        LET r == returned.val
        IN /\ Len(r.title) <= 60
           /\ Len(r.meta_description) <= 150
           /\ Len(r.summary) <= 300
           /\ \A f \in Kinds : r.checks[f].ok_length /\ r.checks[f].length = Len(r[f])
           /\ r.checks.title.max_allowed = 60 /\ TitleCut = 60
           /\ r.checks.meta_description.max_allowed = 150 /\ MetaCut = 150
           /\ r.checks.summary.max_allowed = 300 /\ SummaryCut = 300

\* a result returned after all three completions ran past their limits
C1_Witness ==
    /\ returned.some
    /\ \A f \in Kinds : \E i \in CallsOf(f) :
          Len(_chat(calls[i].response.val)) > MaxOf(f)

-----------------------------------------------------------------------------
(* C2, as claimed: whenever the trimmed completion is longer than the      *)
(* field's maximum, the field is exactly its first max characters, so its  *)
(* length is exactly the maximum, and ok_length is true.                   *)
C2_HardCutExact ==
    (probe.op \in Kinds /\ Len(probe.text) > CutOf(probe.op)) =>
        /\ probe.out = SubSeq(probe.text, 1, CutOf(probe.op))
        /\ Len(probe.out) = MaxOf(probe.op)
        /\ probe.check.ok_length

(* C2, amended: whenever the trimmed completion is longer than the field's *)
(* maximum, the field is the first max characters of it with the white     *)
(* space at their end removed: its length is at most the maximum, and      *)
(* exactly the maximum when the max-th character is not white space;       *)
(* ok_length is true.                                                      *)
C2_HardCutThenStrip ==
    (probe.op \in Kinds /\ Len(probe.text) > CutOf(probe.op)) =>
        LET cut == CutOf(probe.op)
            out == probe.out
        IN /\ IsPrefixOf(out, probe.text)
           /\ Len(out) <= cut
           /\ \A i \in (Len(out) + 1)..cut : probe.text[i] \in White
           /\ (out # <<>> => out[Len(out)] \notin White)
           /\ (probe.text[cut] \notin White => Len(out) = cut)
           /\ cut = MaxOf(probe.op)
           /\ probe.check.ok_length

\* a title completion of more than 60 characters whose 60th is a blank
C2_Witness ==
    /\ probe.op = "title"
    /\ Len(probe.text) > 60
    /\ probe.text[60] = " "
    /\ Len(probe.out) < 60

-----------------------------------------------------------------------------
(* C3: the keywords run resolves are the caller's list when it is not      *)
(* empty, with no call of the synthesizer; else the synthesizer's output,  *)
(* from one call, when synthesis is enabled; else the empty list, with no  *)
(* call.  That list is handed to the three generators, to the three checks *)
(* and stored in the result.                                               *)
C3_KeywordResolution ==
    kws.some =>
        /\ IF req.keywords.some /\ req.keywords.val # <<>>
           THEN kws.val = req.keywords.val /\ CallsOf("keywords") = {}
           ELSE IF req.synth
           THEN /\ CallsOf("keywords") = {1}
                /\ calls[1].response.some
                /\ kws.val = generate_synthetic_keywords(_chat(calls[1].response.val), 8)
           ELSE kws.val = <<>> /\ CallsOf("keywords") = {}
        /\ \A i \in 1..Len(genCalls) :
              genCalls[i].fn \in Kinds => genCalls[i].keywords = kws.val
        /\ \A i \in 1..Len(calls) :
              calls[i].request.kind \in Kinds => calls[i].request.include = kws.val
        /\ pc = "Validated" =>
              \A f \in Kinds :
                 checks.val[f].missing_keywords = AbsentKeywords(FieldVar(f).val, kws.val)
        /\ result.some => result.val.keywords = kws.val /\ result.val.checks = checks.val
        /\ returned.some => returned.val.keywords = kws.val

\* a finished run whose keywords came from the synthesizer
C3_Witness ==
    /\ pc = "Reported"
    /\ ~req.keywords.some
    /\ req.synth
    /\ Len(kws.val) = 2
    /\ Len(calls) = 4

-----------------------------------------------------------------------------
(* C4: the list generate_synthetic_keywords returns has at most n entries, *)
(* no two of them equal when case is ignored, and is the sequence of first *)
(* occurrences, in line order and in the first occurrence's case, of the   *)
(* marker-stripped lines; the lines "1. ab", "- B", "ab" give "ab", "B".   *)
C4_KeywordDedup ==
    probe.op = "keywords" =>
        LET out == probe.out
            first == FirstOccurrences(KeywordLines(probe.text))
        IN /\ Len(out) <= probe.n
           /\ \A i, j \in 1..Len(out) : i # j => Lower(out[i]) # Lower(out[j])
           /\ out = SubSeq(first, 1, Min(probe.n, Len(first)))
           /\ (probe.text = <<"1", ".", " ", "a", "b", NL, "-", " ", "B", NL, "a", "b">>
                 /\ probe.n >= 2) => out = <<KwA, KwB>>

\* a completion whose third line repeats the first in another case
C4_Witness ==
    /\ probe.op = "keywords"
    /\ probe.text = <<"1", ".", " ", "a", "b", NL, "-", " ", "B", NL, "A", "b">>
    /\ probe.n = 2
    /\ probe.out = <<KwA, KwB>>

-----------------------------------------------------------------------------
(* C5: the verdict pretty_report prints is true exactly when each of the   *)
(* three fields has ok_length true and no missing keywords, the missing    *)
(* keywords of a field being the resolved keywords, in order, whose        *)
(* lower-cased form does not occur in the lower-cased field text.          *)
C5_Verdict ==
    report.some =>
        LET r == returned.val
        IN /\ report.val.verdict =
                (\A f \in Kinds :
                    r.checks[f].ok_length /\ r.checks[f].missing_keywords = <<>>)
           /\ \A f \in Kinds :
                r.checks[f].missing_keywords = AbsentKeywords(r[f], r.keywords)

\* one keyword absent from one field only, every length in order: verdict false
C5_Witness ==
    /\ report.some
    /\ ~report.val.verdict
    /\ returned.val.keywords = <<KwA>>
    /\ returned.val.checks.title.missing_keywords = <<KwA>>
    /\ returned.val.checks.meta_description.missing_keywords = <<>>
    /\ returned.val.checks.summary.missing_keywords = <<>>
    /\ \A f \in Kinds : returned.val.checks[f].ok_length

-----------------------------------------------------------------------------
(* C6: a completion call that fails with a connection error aborts run at  *)
(* that call: the error reaches the caller, no SEOResult is returned, no   *)
(* artifact is written, no further call is issued and the failed call is   *)
(* not retried; each step issues at most one request.                      *)
C6_AbortOnConnectionError ==
    /\ raised = "APIConnectionError" =>
          /\ pc = "Failed"
          /\ returned = NONE
          /\ result = NONE
          /\ report = NONE
          /\ artifact = "absent"
    /\ pc = "Failed" => ~ENABLED Next
    /\ \A i \in 1..Len(calls) :
          ~calls[i].response.some => i = Len(calls) /\ raised = "APIConnectionError"
    /\ \A i, j \in 1..Len(calls) :
          i # j => calls[i].request.kind # calls[j].request.kind

\* the title request failed after the meta description was generated
C6_Witness ==
    /\ raised = "APIConnectionError"
    /\ calls[Len(calls)].request.kind = "title"
    /\ ~calls[Len(calls)].response.some
    /\ meta.some

-----------------------------------------------------------------------------
(* C7, as claimed: when the service answers a field request with no usable *)
(* text, run goes on with the empty string as the field, and that field    *)
(* fails validation (ok_length false or a keyword missing), so the verdict *)
(* is false, whatever the request.                                         *)
C7_EmptyFieldFails ==
    \A f \in Kinds :
        EmptyCompletion(f) =>
            /\ FieldVar(f) = Some(<<>>)
            /\ checks.some => ~FieldOk(checks.val[f])
            /\ report.some => ~report.val.verdict

(* C7, amended: when the service answers a field request with no usable    *)
(* text, run goes on with the empty string as the field; its check has     *)
(* ok_length true and lists as missing the resolved keywords that are not  *)
(* the empty string.  The field fails validation, and the verdict is       *)
(* false, when the resolved list holds such a keyword; otherwise the field *)
(* passes.                                                                 *)
C7_EmptyFieldCheck ==
    \A f \in Kinds :
        EmptyCompletion(f) =>
            LET nonempty == {i \in 1..Len(kws.val) : kws.val[i] # <<>>}
            IN /\ FieldVar(f) = Some(<<>>)
               /\ raised # "APIConnectionError" => pc # "Failed" \/ raised = "OSError"
               /\ checks.some =>
                     /\ checks.val[f].length = 0
                     /\ checks.val[f].ok_length
                     /\ checks.val[f].missing_keywords = SubListAt(kws.val, nonempty)
                     /\ FieldOk(checks.val[f]) = (nonempty = {})
               /\ (report.some /\ nonempty # {}) => ~report.val.verdict

\* no keywords, the synthesizer and all three fields answered with nothing:
\* the report's verdict is true
C7_Witness ==
    /\ report.some
    /\ report.val.verdict
    /\ kws.val = <<>>
    /\ \A f \in Kinds : EmptyCompletion(f)
    /\ EmptyCompletion("keywords")

-----------------------------------------------------------------------------
(* C8, as claimed: when writing the artifact fails, the failure reaches    *)
(* the caller and the assembled SEOResult is still returned.               *)
C8_ResultStillReturned ==
    raised = "OSError" => returned.some /\ returned = result

(* C8, amended: when writing the artifact fails, the failure reaches the   *)
(* caller as the exception that leaves run, and no SEOResult is returned:  *)
(* the assembled result is lost with run's frame.                          *)
C8_WriteFailureAborts ==
    raised = "OSError" =>
        /\ pc = "Failed"
        /\ result.some
        /\ returned = NONE
        /\ report = NONE
        /\ artifact # "written"
        /\ ~ENABLED Next

\* the write failed half way
C8_Witness ==
    /\ raised = "OSError"
    /\ artifact = "partial"
    /\ result.some

-----------------------------------------------------------------------------
(* C9: the stages of run follow one another in one forward order, none     *)
(* repeated; the field requests carry the resolved language and keywords.  *)

Rank(p) ==
    CASE p = "Start" -> 0
      [] p = "LanguageResolved" -> 1
      [] p = "KeywordsResolved" -> 2
      [] p = "MetaGenerated" -> 3
      [] p = "TitleGenerated" -> 4
      [] p = "FieldsGenerated" -> 5
      [] p = "Validated" -> 6
      [] p = "Assembled" -> 7
      [] p = "Returned" -> 8
      [] p = "Reported" -> 9
      [] p = "Failed" -> 10

\* a step moves one stage forward, or fails
ForwardStep == pc' = "Failed" \/ Rank(pc') = Rank(pc) + 1

\* a step issues at most one request, with the resolved language and keywords
RequestStep ==
    \/ calls' = calls
    \/ /\ Len(calls') = Len(calls) + 1
       /\ SubSeq(calls', 1, Len(calls)) = calls
       /\ LET r == calls'[Len(calls')].request
          IN /\ r.topic = req.topic
             /\ r.ru = (lang.val = RU)
             /\ r.kind \in Kinds => r.include = kws.val

\* the kinds of the requests issued so far
Issued(cs) == {cs[i].request.kind : i \in 1..Len(cs)}

\* the request a step issues comes after those of before and ahead of the rest
IssuedInOrder(order) ==
    calls' # calls =>
        \E k \in 1..Len(order) :
            /\ calls'[Len(calls')].request.kind = order[k]
            /\ Issued(calls) \subseteq {order[j] : j \in 1..(k - 1)}
            /\ (k > 1 /\ order[k - 1] # "keywords") => order[k - 1] \in Issued(calls)

(* C9, as claimed: ... and the requests go out in the order keywords (when *)
(* synthesized), title, meta description, summary.                         *)
C9_TitleFirst ==
    [][ForwardStep /\ RequestStep
       /\ IssuedInOrder(<<"keywords", "title", "meta_description", "summary">>)]_vars

(* C9, amended: ... and the requests go out in the order keywords (when    *)
(* synthesized), meta description, title, summary.                         *)
C9_MetaFirst ==
    [][ForwardStep /\ RequestStep
       /\ IssuedInOrder(<<"keywords", "meta_description", "title", "summary">>)]_vars

\* a reported run that synthesized its keywords: four requests went out
C9_Witness ==
    /\ pc = "Reported"
    /\ Len(calls) = 4
    /\ calls[2].request.kind = "meta_description"
    /\ calls[3].request.kind = "title"

-----------------------------------------------------------------------------
(* C10: every keyword generate_synthetic_keywords returns is a non-empty   *)
(* string that does not start with a list marker; a line that is empty, or *)
(* empty once its markers and white space are stripped, gives no keyword.  *)
C10_NoEmptyKeyword ==
    probe.op = "keywords" =>
        \A i \in 1..Len(probe.out) :
            probe.out[i] # <<>> /\ probe.out[i][1] \notin Marker

====
